---- MODULE Spec2Model ----
(***************************************************************************)
(* A model of the gateway core: the block store of the indexer            *)
(* (proxy/indexer/solana_blocks_db.py), the mempool transaction cache     *)
(* (proxy/mempool/mempool_neon_tx_dict.py), the mempool service           *)
(* (proxy/mempool/mempool_service.py) and the JSON-RPC dispatcher         *)
(* (proxy/plugin/solana_rest_api.py).                                     *)
(*                                                                         *)
(* Each component has its own specification (SpecHash, SpecBlocks, ...)   *)
(* over the shared variables; a specification leaves the variables of the *)
(* other components at their initial value.                               *)
(***************************************************************************)
EXTENDS Integers, Sequences, FiniteSets, TLC

VARIABLES
    \* synthetic hash encode / decode (SolBlocksDB static methods)
    hSlot, hHash, hDecoded, hPc,
    \* the solana_blocks table and the last write applied to it
    table, bLast,
    \* the last read of the table (get_block_by_slot / get_block_by_hash)
    \* and what it returned
    qReq, qRet,
    \* MPTxDict: the lookup map, the expiry queue, the clock (whole seconds),
    \* and the history the TTL property reads
    neon_tx_dict, neon_tx_queue, now, cLastAdd, cSwept, cGot,
    \* SolanaProxyPlugin.handle_request: the HTTP request handled, the
    \* body built for it (the local `response'), the responses queued to
    \* the client, the handlers invoked and the exception that left
    \* handle_request
    rpcReq, rpcResponse, rpcQueued, rpcCalls, rpcRaised,
    \* EthereumModel.eth_sendRawTransaction: the transaction sent, what the
    \* call returned or raised, and the calls it made to the back end and
    \* to the transaction store
    sendReq, sendRet, sendCalls,
    \* SolanaProxyPlugin.getModel: the two module globals (the instance is
    \* the number of the constructor call that built it), each constructing
    \* thread's position and the model its plugin got, and the
    \* EthereumModel() calls made and completed
    modelInstance, modelInstanceLock, gmPc, gmModel, gmCalls, gmBuilt,
    \* MemPool behind MPService: the queued transactions, the dispatches in
    \* flight with their leases, the free resources, the senders' on-chain
    \* nonces, the suspend flag, the signatures of the transaction cache,
    \* the submit counter and, per sender, the nonces dispatched so far;
    \* what the last submit that met an incumbent did
    mpQueue, mpInflight, mpFree, mpOnChain, mpSuspended, mpCache, mpSeq,
    mpHistory, mpLastSubmit,
    \* MPService.on_data_received: the request, whether its handling raised,
    \* the value returned and the exception that left on_data_received
    svcReq, svcHandlerRaised, svcRet, svcRaised

hashVars == <<hSlot, hHash, hDecoded, hPc>>
queryVars == <<qReq, qRet>>
blockVars == <<table, bLast, queryVars>>
cacheVars == <<neon_tx_dict, neon_tx_queue, now, cLastAdd, cSwept, cGot>>
sendVars == <<sendReq, sendRet, sendCalls>>
gmVars == <<modelInstance, modelInstanceLock, gmPc, gmModel, gmCalls, gmBuilt>>
rpcVars ==
    <<rpcReq, rpcResponse, rpcQueued, rpcCalls, rpcRaised, sendVars, gmVars>>
poolVars == <<mpQueue, mpInflight, mpFree, mpOnChain, mpSuspended, mpCache,
              mpSeq, mpHistory, mpLastSubmit>>
svcVars == <<svcReq, svcHandlerRaised, svcRet, svcRaised>>
mpVars == <<poolVars, svcVars>>

vars == <<hashVars, blockVars, cacheVars, rpcVars, mpVars>>

\* Python's Optional: None, or a value
None == <<>>
Some(x) == <<x>>

(***************************************************************************)
(* Python string helpers.  A string is a sequence of one-character        *)
(* strings.                                                                *)
(***************************************************************************)
RECURSIVE LStrip(_, _)
\* str.lstrip(c): drop every leading occurrence of the character c
LStrip(s, c) ==
    IF s # <<>> /\ Head(s) = c THEN LStrip(Tail(s), c) ELSE s

RECURSIVE Repeat(_, _)
\* c * n
Repeat(c, n) == IF n <= 0 THEN <<>> ELSE <<c>> \o Repeat(c, n - 1)

\* str.rjust(width, c): pad on the left up to width, unchanged when longer
RJust(s, width, c) == Repeat(c, width - Len(s)) \o s

\* s[:n]
Prefix(s, n) == SubSeq(s, 1, IF n < Len(s) THEN n ELSE Len(s))

\* s[n:]
Suffix(s, n) == SubSeq(s, n + 1, Len(s))

HexChars == <<"0", "1", "2", "3", "4", "5", "6", "7",
              "8", "9", "a", "b", "c", "d", "e", "f">>

HexValue(c) == (CHOOSE i \in 1..16 : HexChars[i] = c) - 1

(***************************************************************************)
(* Slots.  A block slot is a Python int; the round trip of the synthetic  *)
(* hash is claimed up to 2^48, beyond the integers TLC evaluates, so a    *)
(* slot is held as two 24-bit limbs: value = hi * 2^24 + lo, negative     *)
(* when neg.                                                               *)
(***************************************************************************)
Wide(n) == [neg |-> n < 0, hi |-> 0, lo |-> IF n < 0 THEN -n ELSE n]

\* the six hexadecimal digits of one limb, most significant first
LimbDigits(n) ==
    [i \in 1..6 |-> HexChars[((n \div (16 ^ (6 - i))) % 16) + 1]]

\* hex(block_slot)[2:] for block_slot >= 0: no leading zeros, "0" for zero
Hex(slot) ==
    LET d == LStrip(LimbDigits(slot.hi) \o LimbDigits(slot.lo), "0")
    IN  IF d = <<>> THEN <<"0">> ELSE d

RECURSIVE LimbOfHex(_)
\* the value of at most six hexadecimal digits
LimbOfHex(s) ==
    IF s = <<>> THEN 0
    ELSE 16 * LimbOfHex(SubSeq(s, 1, Len(s) - 1)) + HexValue(s[Len(s)])

\* int(hex_number, 16) for a string of 1..12 hexadecimal digits
IntOfHex(s) ==
    LET p == RJust(s, 12, "0")
    IN  [neg |-> FALSE, hi |-> LimbOfHex(SubSeq(p, 1, 6)),
         lo |-> LimbOfHex(SubSeq(p, 7, 12))]

(***************************************************************************)
(* SolBlocksDB._generate_fake_block_hash / _get_fake_block_slot            *)
(***************************************************************************)
HashPrefix == <<"0", "x">>

\* the encoder without the "00" sentinel in front of the digits
MutGenerateFakeBlockHash(slot) ==
    IF slot.neg
    THEN HashPrefix \o Repeat("0", 64)
    ELSE LET hex_num == Hex(slot)
             num_len == Len(hex_num)
             padded  == RJust(hex_num, ((num_len \div 2) + (num_len % 2)) * 2, "0")
         IN  HashPrefix \o RJust(padded, 64, "f")

\* the encoder clamping slot 0 with the negative slots
MutClampGenerateFakeBlockHash(slot) ==
    IF slot.neg \/ (slot.hi = 0 /\ slot.lo = 0)
    THEN HashPrefix \o Repeat("0", 64)
    ELSE LET hex_num == Hex(slot)
             num_len == Len(hex_num)
             padded  == <<"0", "0">> \o
                        RJust(hex_num, ((num_len \div 2) + (num_len % 2)) * 2, "0")
         IN  HashPrefix \o RJust(padded, 64, "f")

\* _generate_fake_block_hash(block_slot)
GenerateFakeBlockHash(slot) ==
    IF slot.neg
    THEN HashPrefix \o Repeat("0", 64)
    ELSE LET hex_num == Hex(slot)
             num_len == Len(hex_num)
             padded  == <<"0", "0">> \o
                        RJust(hex_num, ((num_len \div 2) + (num_len % 2)) * 2, "0")
         IN  HashPrefix \o RJust(padded, 64, "f")

\* _get_fake_block_slot(hash_number): the slot, or None
GetFakeBlockSlot(hash_number) ==
    LET stripped == LStrip(Suffix(hash_number, 2), "f")
    IN  IF Len(stripped) > 12 \/ Prefix(stripped, 2) # <<"0", "0">>
        THEN None
        ELSE LET hex_number == LStrip(stripped, "0")
             IN  IF hex_number = <<>> THEN Some(Wide(0))
                 ELSE Some(IntOfHex(hex_number))

\* the hash component at rest, in the other specifications
HashIdle ==
    /\ hSlot = Wide(0)
    /\ hHash = <<>>
    /\ hDecoded = None
    /\ hPc = "idle"

EmptyTable == <<>>

NoOp == [op |-> "none", base |-> 0, slots |-> <<>>, gone |-> {}]

\* the block store at rest
\* no read yet
NoQuery == [op |-> "none", block_slot |-> 0, block_hash |-> <<>>,
            latest_block_slot |-> 0]

\* SolBlockInfo(block_slot, block_hash, block_time, parent_block_hash,
\* is_finalized)
SolBlockInfo(block_slot, block_hash, block_time, parent_block_hash, is_finalized) ==
    [block_slot |-> block_slot, block_hash |-> block_hash,
     block_time |-> block_time, parent_block_hash |-> parent_block_hash,
     is_finalized |-> is_finalized]

\* SolBlockInfo(block_slot=...): every other field at its default
StubBlockInfo(block_slot) ==
    SolBlockInfo(block_slot, None, None, None, Some(FALSE))

\* what a read ends with: the block returned, or the exception raised
Returned(block) == [raised |-> None, block |-> block]
Raised(exc) == [raised |-> Some(exc), block |-> StubBlockInfo(0)]

BlocksIdle ==
    /\ table = EmptyTable
    /\ bLast = NoOp
    /\ qReq = NoQuery
    /\ qRet = Returned(StubBlockInfo(0))

Signatures == {"sigA", "sigB"}

NoGet == [neon_sig |-> "", result |-> None]

\* the transaction cache at rest
CacheIdle ==
    /\ neon_tx_dict = <<>>
    /\ neon_tx_queue = <<>>
    /\ now = 0
    /\ cLastAdd = [g \in Signatures |-> None]
    /\ cSwept = [g \in Signatures |-> FALSE]
    /\ cGot = NoGet

\* a JSON value of a request body: a scalar, an object (with its id, its
\* method and what the handler it names does), or an array of such values
Json(t, id, method, outcome, items) ==
    [t |-> t, id |-> id, method |-> method, outcome |-> outcome, items |-> items]

NoRequest ==
    [http_method |-> "", parses |-> FALSE, parser_get |-> FALSE,
     json |-> Json("none", None, None, "", <<>>)]

\* response = None (line 557)
NoResponse == [array |-> FALSE, items |-> <<>>]

\* a raw transaction as eth_sendRawTransaction meets it: whether it
\* decodes, its gas price and nonce, the sender's account (None when
\* getAccountInfo fails) and what call_signed and submit_transaction do
RawTrx(decodes, gasPrice, nonce, account, call_signed, submit_transaction) ==
    [decodes |-> decodes, gasPrice |-> gasPrice, nonce |-> nonce,
     account |-> account, call_signed |-> call_signed,
     submit_transaction |-> submit_transaction]

NoSend == RawTrx(FALSE, 0, 0, None, "", "")

\* an exception leaving eth_sendRawTransaction
SendError(class, code, message, logs) ==
    [class |-> class, code |-> code, message |-> message, logs |-> logs]

\* what eth_sendRawTransaction ends with
SendResult(value, raised, calls) ==
    [value |-> value, raised |-> raised, calls |-> calls]

MaxThreads == 4

\* the threads that construct a SolanaProxyPlugin
Threads == 1..MaxThreads

\* the dispatcher at rest
RpcIdle ==
    /\ rpcReq = NoRequest
    /\ rpcResponse = NoResponse
    /\ rpcQueued = <<>>
    /\ rpcCalls = <<>>
    /\ rpcRaised = None
    /\ sendReq = NoSend
    /\ sendRet = SendResult(None, None, <<>>)
    /\ sendCalls = <<>>
    /\ modelInstance = None
    /\ modelInstanceLock = None
    /\ gmPc = [t \in Threads |-> "start"]
    /\ gmModel = [t \in Threads |-> None]
    /\ gmCalls = 0
    /\ gmBuilt = 0

Senders == {"X", "Y"}

PoolSize == 2

\* the resource ids of the pool
Resources == 1..PoolSize

\* a request of the service or of the maintenance socket
Request(class, type, tx, fails) ==
    [class |-> class, type |-> type, tx |-> tx, fails |-> fails]

Tx(sender, nonce, gas_price) ==
    [sender |-> sender, nonce |-> nonce, gas_price |-> gas_price]

NoTx == Tx("", 0, 0)

\* no submit has met an incumbent
NoSubmit ==
    [collides |-> FALSE, gas_price |-> 0, incumbent |-> 0, outcome |-> "",
     replaced |-> FALSE, kept |-> TRUE]

\* the mempool service at rest
MpIdle ==
    /\ mpQueue = {}
    /\ mpInflight = {}
    /\ mpFree = Resources
    /\ mpOnChain = [a \in Senders |-> 0]
    /\ mpSuspended = FALSE
    /\ mpCache = {}
    /\ mpSeq = 0
    /\ mpHistory = [a \in Senders |-> <<>>]
    /\ mpLastSubmit = NoSubmit
    /\ svcReq = Request("", "", NoTx, FALSE)
    /\ svcHandlerRaised = FALSE
    /\ svcRet = None
    /\ svcRaised = None

(***************************************************************************)
(* The solana_blocks table.  block_slot is the key: the table is a        *)
(* function from the stored slots to their rows.                          *)
(***************************************************************************)
MaxSlot == 2
MaxListLen == 2

Slots == 0..MaxSlot

\* a stored (non-synthetic) block hash of a slot, 64 hex digits
RealHash(slot) == HashPrefix \o Repeat("a", 63) \o <<HexChars[(slot % 16) + 1]>>

\* a stored block time of a slot
RealTime(slot) == 1000 + slot

\* the SolBlockInfo objects the indexer may hand to set_block_list
BlockInputs ==
    {[block_slot |-> s, block_hash |-> None, block_time |-> None,
      parent_block_slot |-> s - 1, is_finalized |-> f] :
        s \in Slots, f \in BOOLEAN}
    \cup
    {[block_slot |-> s, block_hash |-> Some(RealHash(s)),
      block_time |-> IF timed THEN Some(RealTime(s)) ELSE None,
      parent_block_slot |-> s - 1, is_finalized |-> f] :
        s \in Slots, timed \in BOOLEAN, f \in BOOLEAN}

\* the non-empty lists of at most MaxListLen elements of S
ListsOf(S) == UNION {[1..n -> S] : n \in 1..MaxListLen}

\* the slot lists given to finalize_block_list / activate_block_list, in any order
SlotLists == ListsOf(Slots)

\* the batches given to set_block_list: the indexer hands blocks in slot order
BlockBatches ==
    {b \in ListsOf(BlockInputs) :
        \A i \in 1..(Len(b) - 1) : b[i].block_slot < b[i + 1].block_slot}

Elems(seq) == {seq[i] : i \in 1..Len(seq)}

StoredSlots == DOMAIN table

\* the value list set_block_list builds for one block (lines 179-182):
\* block.is_finalized is written to both is_finalized and is_active
ValueList(block) ==
    [block_hash |-> block.block_hash, block_time |-> block.block_time,
     parent_block_slot |-> block.parent_block_slot,
     is_finalized |-> block.is_finalized, is_active |-> block.is_finalized]

RECURSIVE InsertBatch(_, _)
\* BaseDB._insert_batch: the rows are inserted in order; a row whose
\* block_slot is already stored is left as it is (block_slot is the key)
InsertBatch(tbl, batch) ==
    IF batch = <<>> THEN tbl
    ELSE LET b == Head(batch)
             t == IF b.block_slot \in DOMAIN tbl THEN tbl
                  ELSE [s \in DOMAIN tbl \cup {b.block_slot} |->
                          IF s = b.block_slot THEN ValueList(b) ELSE tbl[s]]
         IN  InsertBatch(t, Tail(batch))

\* the finalizing UPDATE without "is_active = True"
MutFinalizeUpdate(tbl, block_slot_list) ==
    [s \in DOMAIN tbl |->
        IF s \in Elems(block_slot_list)
        THEN [tbl[s] EXCEPT !.is_finalized = TRUE]
        ELSE tbl[s]]

\* UPDATE ... SET is_finalized = True, is_active = True WHERE block_slot IN (list)
FinalizeUpdate(tbl, block_slot_list) ==
    [s \in DOMAIN tbl |->
        IF s \in Elems(block_slot_list)
        THEN [tbl[s] EXCEPT !.is_finalized = TRUE, !.is_active = TRUE]
        ELSE tbl[s]]

\* DELETE ... WHERE block_slot > base AND block_slot < list[-1] AND is_active = False
FinalizeDelete(tbl, base_block_slot, block_slot_list) ==
    LET last == block_slot_list[Len(block_slot_list)]
        gone == {s \in DOMAIN tbl :
                    s > base_block_slot /\ s < last /\ ~tbl[s].is_active}
    IN  [s \in DOMAIN tbl \ gone |-> tbl[s]]

\* the deactivating UPDATE with the comparison turned round
MutActivateClear(tbl, base_block_slot) ==
    [s \in DOMAIN tbl |->
        IF s < base_block_slot THEN [tbl[s] EXCEPT !.is_active = FALSE]
        ELSE tbl[s]]

\* UPDATE ... SET is_active = False WHERE block_slot > base
ActivateClear(tbl, base_block_slot) ==
    [s \in DOMAIN tbl |->
        IF s > base_block_slot THEN [tbl[s] EXCEPT !.is_active = FALSE]
        ELSE tbl[s]]

\* UPDATE ... SET is_active = True WHERE block_slot IN (list)
ActivateSet(tbl, block_slot_list) ==
    [s \in DOMAIN tbl |->
        IF s \in Elems(block_slot_list)
        THEN [tbl[s] EXCEPT !.is_active = TRUE]
        ELSE tbl[s]]

BlocksInit == HashIdle /\ BlocksIdle /\ CacheIdle /\ RpcIdle /\ MpIdle

\* set_block_list(cursor, iter_block)
set_block_list ==
    \E batch \in BlockBatches :
        /\ table' = InsertBatch(table, batch)
        /\ bLast' = [op |-> "set_block_list", base |-> 0,
                     slots |-> [i \in 1..Len(batch) |-> batch[i].block_slot],
                     gone |-> {}]

\* finalize_block_list(cursor, base_block_slot, block_slot_list); the list is
\* non-empty: with an empty one the statement is malformed (IN ()) and the
\* database refuses it
finalize_block_list ==
    \E base \in Slots, list \in SlotLists :
        /\ table' = FinalizeDelete(FinalizeUpdate(table, list), base, list)
        /\ bLast' = [op |-> "finalize_block_list", base |-> base, slots |-> list,
                     gone |-> DOMAIN table \ DOMAIN table']

\* activate_block_list(cursor, base_block_slot, block_slot_list), the list
\* non-empty as above
activate_block_list ==
    \E base \in Slots, list \in SlotLists :
        /\ table' = ActivateSet(ActivateClear(table, base), list)
        /\ bLast' = [op |-> "activate_block_list", base |-> base, slots |-> list,
                     gone |-> {}]

BlocksNext ==
    \/ set_block_list
        /\ UNCHANGED <<queryVars, hashVars, cacheVars, rpcVars, mpVars>>
    \/ finalize_block_list
        /\ UNCHANGED <<queryVars, hashVars, cacheVars, rpcVars, mpVars>>
    \/ activate_block_list
        /\ UNCHANGED <<queryVars, hashVars, cacheVars, rpcVars, mpVars>>

SpecBlocks == BlocksInit /\ [][BlocksNext]_vars

(***************************************************************************)
(* The reads of the table: get_block_by_slot and get_block_by_hash.  A    *)
(* read whose query leaves the order of its rows open (a UNION without    *)
(* ORDER BY read with fetchone) has every outcome the rows allow.         *)
(***************************************************************************)
\* self._config.genesis_timestamp
GenesisTime == 900

\* math.ceil(d * _one_block_sec) with _one_block_sec = 0.4, for d >= 0
CeilBlockSec(d) == (2 * d + 4) \div 5

\* the slot of a decoded synthetic hash as a number
SlotNumber(wide) == wide.hi * 16777216 + wide.lo

\* the synthetic hash of a slot given as a number
FakeHash(block_slot) == GenerateFakeBlockHash(Wide(block_slot))

\* the row of the table at block_slot if it is stored and active
ActiveRow(tbl, block_slot) ==
    IF block_slot \in DOMAIN tbl /\ tbl[block_slot].is_active
    THEN Some(tbl[block_slot]) ELSE None

\* a row of a read: the columns of a (NULL when a is missing) and b's hash
ValueRow(block_slot, a, parent_block_hash) ==
    IF a = None
    THEN [block_slot |-> None, block_hash |-> None, block_time |-> None,
          is_finalized |-> None, parent_block_hash |-> parent_block_hash]
    ELSE [block_slot |-> Some(block_slot), block_hash |-> a[1].block_hash,
          block_time |-> a[1].block_time,
          is_finalized |-> Some(a[1].is_finalized),
          parent_block_hash |-> parent_block_hash]

\* the read of get_block_by_slot that joins the parent whatever its is_active
MutSlotQuery(tbl, block_slot) ==
    LET a == ActiveRow(tbl, block_slot)
        b == IF block_slot - 1 \in DOMAIN tbl
             THEN Some(tbl[block_slot - 1]) ELSE None
    IN  IF a = None /\ b = None THEN None
        ELSE Some(ValueRow(block_slot, a,
                           IF b = None THEN None ELSE b[1].block_hash))

\* the read of get_block_by_slot, lines 127-151: the active row a at
\* block_slot joined with the active row b at block_slot - 1, from either
\* side; the two halves give the same row when both exist
SlotQuery(tbl, block_slot) ==
    LET a == ActiveRow(tbl, block_slot)
        b == ActiveRow(tbl, block_slot - 1)
    IN  IF a = None /\ b = None THEN None
        ELSE Some(ValueRow(block_slot, a,
                           IF b = None THEN None ELSE b[1].block_hash))

\* the rows of the read of _generate_fake_block_time, lines 41-59: the
\* nearest stored row at or below block_slot and the nearest at or above
NearestRows(tbl, block_slot) ==
    LET below == {s \in DOMAIN tbl : s <= block_slot}
        above == {s \in DOMAIN tbl : s >= block_slot}
    IN  {[lower |-> TRUE, block_slot |-> s, block_time |-> tbl[s].block_time] :
            s \in {m \in below : \A o \in below : o <= m}}
        \cup
        {[lower |-> FALSE, block_slot |-> s, block_time |-> tbl[s].block_time] :
            s \in {m \in above : \A o \in above : m <= o}}

\* the time computed from the row fetchone hands back, lines 69-76; the
\* arithmetic on a NULL block_time raises TypeError
TimeFromRow(block_slot, row) ==
    IF row.block_time = None THEN [raised |-> Some("TypeError"), time |-> 0]
    ELSE IF row.lower
    THEN [raised |-> None,
          time |-> row.block_time[1] + CeilBlockSec(block_slot - row.block_slot)]
    ELSE [raised |-> None,
          time |-> row.block_time[1] - CeilBlockSec(row.block_slot - block_slot)]

\* _generate_fake_block_time(block_slot), lines 39-76: every outcome it can
\* end with
GenerateFakeBlockTime(tbl, block_slot) ==
    IF NearestRows(tbl, block_slot) = {}
    THEN {[raised |-> None, time |-> CeilBlockSec(block_slot) + GenesisTime]}
    ELSE {TimeFromRow(block_slot, row) : row \in NearestRows(tbl, block_slot)}

\* a _check_block_hash that hands the stored value back as it is
MutCheckBlockHash(block_slot, block_hash) == block_hash

\* _check_block_hash(block_slot, block_hash), line 37
CheckBlockHash(block_slot, block_hash) ==
    IF block_hash = None THEN Some(FakeHash(block_slot)) ELSE block_hash

\* _check_block_time(block_slot, block_time), line 79
CheckBlockTime(tbl, block_slot, block_time) ==
    IF block_time = None THEN GenerateFakeBlockTime(tbl, block_slot)
    ELSE {[raised |-> None, time |-> block_time[1]]}

\* the block built once the time is known, or the exception of the time
WithTime(outcome, block_slot, block_hash, parent_block_hash, is_finalized) ==
    IF outcome.raised # None THEN Raised(outcome.raised[1])
    ELSE Returned(SolBlockInfo(block_slot, block_hash, Some(outcome.time),
                               parent_block_hash, is_finalized))

\* _block_from_value(block_slot, value_list), lines 91-110; block_slot and
\* value_list may be None
BlockFromValue(tbl, block_slot, value_list) ==
    IF value_list = None
    THEN IF block_slot = None
         THEN {Returned(StubBlockInfo(0))}
         ELSE {WithTime(t, block_slot[1], Some(FakeHash(block_slot[1])),
                        Some(FakeHash(block_slot[1] - 1)), Some(FALSE)) :
                 t \in GenerateFakeBlockTime(tbl, block_slot[1])}
    ELSE LET row == value_list[1]
             slot == IF block_slot = None THEN row.block_slot[1]
                     ELSE block_slot[1]
         IN  {WithTime(t, slot, CheckBlockHash(slot, row.block_hash),
                       CheckBlockHash(slot - 1, row.parent_block_hash),
                       row.is_finalized) :
                 t \in CheckBlockTime(tbl, slot, row.block_time)}

\* get_block_by_slot without the test for the tip
MutGetBlockBySlot(tbl, block_slot, latest_block_slot) ==
    BlockFromValue(tbl, Some(block_slot), SlotQuery(tbl, block_slot))

\* get_block_by_slot(block_slot, latest_block_slot), lines 123-152
GetBlockBySlot(tbl, block_slot, latest_block_slot) ==
    IF block_slot > latest_block_slot
    THEN {Returned(StubBlockInfo(block_slot))}
    ELSE BlockFromValue(tbl, Some(block_slot), SlotQuery(tbl, block_slot))

\* the rows of the read of get_block_by_hash, lines 161-173: the rows a
\* whose block_hash is the requested one, each with the hash of the row b
\* at a.block_slot - 1 when a and b are both active
HashQuery(tbl, block_hash) ==
    {ValueRow(s, Some(tbl[s]),
              IF tbl[s].is_active /\ ActiveRow(tbl, s - 1) # None
              THEN ActiveRow(tbl, s - 1)[1].block_hash ELSE None) :
        s \in {m \in DOMAIN tbl : tbl[m].block_hash = Some(block_hash)}}

\* a set_block_hash that leaves the block as it is
MutSetBlockHash(outcome, block_hash) == outcome

\* block.set_block_hash(block_hash), line 158
SetBlockHash(outcome, block_hash) ==
    IF outcome.raised # None THEN outcome
    ELSE Returned([outcome.block EXCEPT !.block_hash = Some(block_hash)])

\* get_block_by_hash(block_hash, latest_block_slot), lines 154-174
GetBlockByHash(tbl, block_hash, latest_block_slot) ==
    LET fake_block_slot == GetFakeBlockSlot(block_hash)
    IN  IF fake_block_slot # None
        THEN {SetBlockHash(r, block_hash) :
                r \in GetBlockBySlot(tbl, SlotNumber(fake_block_slot[1]),
                                     latest_block_slot)}
        ELSE IF HashQuery(tbl, block_hash) = {}
        THEN BlockFromValue(tbl, None, None)
        ELSE UNION {BlockFromValue(tbl, None, Some(row)) :
                        row \in HashQuery(tbl, block_hash)}

\* the block times stored: whole seconds, so that neighbouring slots (0.4 s
\* apart) often share one
StoredTimes == {1000, 1001}

\* what a stored row holds besides its slot and its hash: a time or none,
\* and its two flags
RowShapes ==
    {[block_time |-> t, is_finalized |-> f, is_active |-> a] :
        t \in {None} \cup {Some(x) : x \in StoredTimes},
        f \in BOOLEAN, a \in BOOLEAN}

\* the row of that shape at block_slot
RowOf(block_slot, shape) ==
    [block_hash |-> Some(RealHash(block_slot)),
     block_time |-> shape.block_time,
     parent_block_slot |-> block_slot - 1,
     is_finalized |-> shape.is_finalized, is_active |-> shape.is_active]

\* the tables the writes of the indexer leave behind: a finalized row is
\* active, and block times do not go back as slots go up
Tables(slots) ==
    LET shapes == {p \in RowShapes : p.is_finalized => p.is_active}
        InOrder(f) ==
            \A s1, s2 \in DOMAIN f :
                (s1 < s2 /\ f[s1].block_time # None /\ f[s2].block_time # None)
                    => f[s1].block_time[1] <= f[s2].block_time[1]
    IN  UNION {{[s \in D |-> RowOf(s, f[s])] :
                    f \in {g \in [D -> shapes] : InOrder(g)}} :
                        D \in SUBSET slots}

\* the slots and the tips (latest_block_slot) the reads are made with
QuerySlots == 0..(MaxSlot + 1)
QueryTips == {0, MaxSlot}

\* a hash that is neither synthetic nor stored
UnknownHash == HashPrefix \o Repeat("b", 64)

\* the hashes the reads are made with
QueryHashes ==
    {FakeHash(s) : s \in QuerySlots} \cup {RealHash(s) : s \in Slots}
        \cup {UnknownHash}

QueryInit ==
    /\ HashIdle /\ CacheIdle /\ RpcIdle /\ MpIdle
    /\ table \in Tables(Slots)
    /\ bLast = NoOp
    /\ qReq = NoQuery
    /\ qRet = Returned(StubBlockInfo(0))

\* get_block_by_slot(block_slot, latest_block_slot); a read leaves the table
\* as it is, so one read of each table is every read of it
get_block_by_slot ==
    /\ qReq = NoQuery
    /\ \E block_slot \in QuerySlots, latest_block_slot \in QueryTips :
        \E r \in GetBlockBySlot(table, block_slot, latest_block_slot) :
            /\ qReq' = [op |-> "get_block_by_slot", block_slot |-> block_slot,
                        block_hash |-> <<>>,
                        latest_block_slot |-> latest_block_slot]
            /\ qRet' = r
            /\ UNCHANGED <<table, bLast>>

\* get_block_by_hash(block_hash, latest_block_slot)
get_block_by_hash ==
    /\ qReq = NoQuery
    /\ \E block_hash \in QueryHashes, latest_block_slot \in QueryTips :
        \E r \in GetBlockByHash(table, block_hash, latest_block_slot) :
            /\ qReq' = [op |-> "get_block_by_hash", block_slot |-> 0,
                        block_hash |-> block_hash,
                        latest_block_slot |-> latest_block_slot]
            /\ qRet' = r
            /\ UNCHANGED <<table, bLast>>

QueryNext ==
    \/ get_block_by_slot /\ UNCHANGED <<hashVars, cacheVars, rpcVars, mpVars>>
    \/ get_block_by_hash /\ UNCHANGED <<hashVars, cacheVars, rpcVars, mpVars>>

SpecQuery == QueryInit /\ [][QueryNext]_vars

(***************************************************************************)
(* MPTxDict (mempool_neon_tx_dict.py): a dict neon_sig -> item and a      *)
(* deque of items in the order they were added.  _get_time() is the       *)
(* clock rounded up to whole seconds; the model's clock `now' is that     *)
(* value.                                                                  *)
(***************************************************************************)
_life_time == 15

MaxTime == 17
MaxQueue == 2

\* the neon_tx carried for a signature
NeonTx(neon_sig) == <<"tx", neon_sig>>

\* EthereumError(str(exc))
EthereumError(exc) == <<"EthereumError", exc>>

Exceptions == {None, Some("exc")}

\* MPTxDict._Item(last_time, neon_sig, neon_tx, error), lines 32-34
Item(time, neon_sig, exc) ==
    [last_time |-> time, neon_sig |-> neon_sig, neon_tx |-> NeonTx(neon_sig),
     error |-> IF exc # None THEN Some(EthereumError(exc[1])) ELSE None]

\* dict[neon_sig] = item
DictSet(d, neon_sig, item) ==
    [g \in DOMAIN d \cup {neon_sig} |-> IF g = neon_sig THEN item ELSE d[g]]

\* dict.pop(neon_sig, None)
DictPop(d, neon_sig) == [g \in DOMAIN d \ {neon_sig} |-> d[g]]

\* MPTxDict.get(neon_sig): the error, the neon_tx, or None
Get(neon_sig) ==
    IF neon_sig \notin DOMAIN neon_tx_dict THEN None
    ELSE LET item == neon_tx_dict[neon_sig]
         IN  IF item.error # None THEN Some(item.error[1])
             ELSE Some(item.neon_tx)

RECURSIVE Drain(_, _, _)
\* the while loop of clear(), lines 51-53: <<queue, dict>> after it
Drain(q, d, last_time) ==
    IF Len(q) > 0 /\ Head(q).last_time < last_time
    THEN Drain(Tail(q), DictPop(d, Head(q).neon_sig), last_time)
    ELSE <<q, d>>

\* max(self._get_time() - self._life_time, 0)
ClearHorizon(time) == IF time - _life_time > 0 THEN time - _life_time ELSE 0

CacheInit == HashIdle /\ BlocksIdle /\ CacheIdle /\ RpcIdle /\ MpIdle

\* the clock advances
CacheTick ==
    /\ now < MaxTime
    /\ now' = now + 1
    /\ UNCHANGED <<neon_tx_dict, neon_tx_queue, cLastAdd, cSwept, cGot>>

\* MPTxDict.add(neon_sig, neon_tx, exc)
CacheAdd ==
    \E neon_sig \in Signatures, exc \in Exceptions :
        /\ Len(neon_tx_queue) < MaxQueue
        /\ LET item == Item(now, neon_sig, exc)
           IN  /\ neon_tx_queue' = Append(neon_tx_queue, item)
               /\ neon_tx_dict' = DictSet(neon_tx_dict, neon_sig, item)
        /\ cLastAdd' = [cLastAdd EXCEPT ![neon_sig] = Some(now)]
        /\ cSwept' = [cSwept EXCEPT ![neon_sig] = FALSE]
        /\ UNCHANGED <<now, cGot>>

\* MPTxDict.get(neon_sig)
CacheGet ==
    \E neon_sig \in Signatures :
        /\ cGot' = [neon_sig |-> neon_sig, result |-> Get(neon_sig)]
        /\ UNCHANGED <<neon_tx_dict, neon_tx_queue, now, cLastAdd, cSwept>>

\* MPTxDict.clear()
CacheClear ==
    /\ IF Len(neon_tx_queue) = 0
       THEN UNCHANGED <<neon_tx_queue, neon_tx_dict>>
       ELSE LET r == Drain(neon_tx_queue, neon_tx_dict, ClearHorizon(now))
            IN  /\ neon_tx_queue' = r[1]
                /\ neon_tx_dict' = r[2]
    /\ cSwept' = [g \in Signatures |->
                    \/ cSwept[g]
                    \/ cLastAdd[g] # None /\ now > cLastAdd[g][1] + _life_time]
    /\ UNCHANGED <<now, cLastAdd, cGot>>

CacheNext ==
    \/ CacheTick /\ UNCHANGED <<hashVars, blockVars, rpcVars, mpVars>>
    \/ CacheAdd /\ UNCHANGED <<hashVars, blockVars, rpcVars, mpVars>>
    \/ CacheGet /\ UNCHANGED <<hashVars, blockVars, rpcVars, mpVars>>
    \/ CacheClear /\ UNCHANGED <<hashVars, blockVars, rpcVars, mpVars>>

SpecCache == CacheInit /\ [][CacheNext]_vars

(***************************************************************************)
(* SolanaProxyPlugin.process_request / handle_request (solana_rest_api.py) *)
(***************************************************************************)
MaxBatch == 2

\* the methods of EthereumModel the requests name
ModelMethods == {"eth_chainId"}

RequestIds == {None, Some(1), Some(2)}

\* what the named handler does when called
Outcomes == {"return", "SolanaTrxError", "EthereumError", "Exception"}

\* a JSON object: a request with or without id and method
JsonObjects ==
    {Json("dict", id, None, "return", <<>>) : id \in RequestIds}
    \cup {Json("dict", id, Some("eth_noSuchMethod"), "return", <<>>) : id \in RequestIds}
    \cup {Json("dict", id, Some(m), o, <<>>) :
            id \in RequestIds, m \in ModelMethods, o \in Outcomes}

JsonScalar == Json("scalar", None, None, "return", <<>>)

JsonElements == JsonObjects \cup {JsonScalar}

JsonArrays ==
    {Json("list", None, None, "return", items) :
        items \in UNION {[1..n -> JsonElements] : n \in 0..MaxBatch}}

JsonValues == JsonElements \cup JsonArrays

\* the HTTP requests that reach handle_request.  parses: json.loads accepts
\* the body; parser_get: whether the HttpParser object answers .get(...)
\* (its class is not part of the dispatcher)
HttpRequests ==
    {[http_method |-> "OPTIONS", parses |-> FALSE, parser_get |-> FALSE,
      json |-> Json("none", None, None, "", <<>>)]}
    \cup {[http_method |-> "POST", parses |-> FALSE, parser_get |-> g,
           json |-> Json("none", None, None, "", <<>>)] : g \in BOOLEAN}
    \cup {[http_method |-> "POST", parses |-> TRUE, parser_get |-> FALSE,
           json |-> j] : j \in JsonValues}

\* a JSON-RPC error object
ErrorObject(code, message, data) ==
    [code |-> code, message |-> message, data |-> data]

\* {'code': -32000, 'message': str(err)}
GenericError(message) == ErrorObject(-32000, message, None)

\* a response object; has_id: whether the key 'id' is present
Response(has_id, id, result, error) ==
    [jsonrpc |-> "2.0", has_id |-> has_id, id |-> id,
     result |-> result, error |-> error]

\* whether process_request(request) raises before its try block:
\* request.get on a value that is no dict (line 526)
ProcessRaises(request) == request.t # "dict"

\* whether process_request reaches the call of the handler (line 531)
CallsHandler(request) ==
    /\ request.t = "dict"
    /\ request.method # None
    /\ request.method[1] \in ModelMethods

\* what the exception the handler raises carries: the result payload of a
\* SolanaTrxError, the code, message and data of an EthereumError, the
\* text of any other exception
HandlerError(outcome) ==
    CASE outcome = "SolanaTrxError" ->
            ErrorObject(-32002, "Transaction simulation failed", Some("logs"))
      [] outcome = "EthereumError" ->
            ErrorObject(-32001, "domain error", Some("data"))
      [] OTHER -> ErrorObject(0, "str(err)", None)

\* EthereumError.getError()
GetError(err) == ErrorObject(err.code, err.message, err.data)

\* process_request without its except clause for EthereumError
MutProcessRequest(request) ==
    LET id == request.id
    IN  IF request.method = None
        THEN Response(TRUE, id, None, Some(GenericError("'method'")))
        ELSE IF request.method[1] \notin ModelMethods
        THEN Response(TRUE, id, None, Some(GenericError("no attribute")))
        ELSE CASE request.outcome = "return" ->
                    Response(TRUE, id, Some(<<"result", request.method[1]>>), None)
               [] request.outcome = "SolanaTrxError" ->
                    Response(TRUE, id, None, Some(HandlerError(request.outcome)))
               [] OTHER ->
                    Response(TRUE, id, None,
                             Some(GenericError(HandlerError(request.outcome).message)))

\* process_request(request) for a dict, lines 523-542
ProcessRequest(request) ==
    LET id == request.id
    IN  IF request.method = None
        THEN Response(TRUE, id, None, Some(GenericError("'method'")))
        ELSE IF request.method[1] \notin ModelMethods
        THEN Response(TRUE, id, None, Some(GenericError("no attribute")))
        ELSE CASE request.outcome = "return" ->
                    Response(TRUE, id, Some(<<"result", request.method[1]>>), None)
               [] request.outcome = "SolanaTrxError" ->
                    Response(TRUE, id, None, Some(HandlerError(request.outcome)))
               [] request.outcome = "EthereumError" ->
                    Response(TRUE, id, None,
                             Some(GetError(HandlerError(request.outcome))))
               [] OTHER ->
                    Response(TRUE, id, None,
                             Some(GenericError(HandlerError(request.outcome).message)))

\* the response of the except branch of handle_request (line 574): no id
RequestFailed(message) == Response(FALSE, None, None, Some(GenericError(message)))

\* the body handle_request builds in its try block (lines 559-574):
\* one response object, or an array of them
BuildResponse(req) ==
    IF ~req.parses THEN [array |-> FALSE, items |-> <<RequestFailed("json.loads")>>]
    ELSE LET j == req.json
         IN  IF j.t = "list"
             THEN IF Len(j.items) = 0
                  THEN [array |-> FALSE,
                        items |-> <<RequestFailed("Empty batch request")>>]
                  ELSE IF \E i \in 1..Len(j.items) : ProcessRaises(j.items[i])
                  THEN [array |-> FALSE, items |-> <<RequestFailed("no attribute")>>]
                  ELSE [array |-> TRUE,
                        items |-> [i \in 1..Len(j.items) |-> ProcessRequest(j.items[i])]]
             ELSE IF ProcessRaises(j)
                  THEN [array |-> FALSE, items |-> <<RequestFailed("no attribute")>>]
                  ELSE [array |-> FALSE, items |-> <<ProcessRequest(j)>>]

RECURSIVE HandlersCalled(_)
\* the handlers invoked while the elements are processed in order, up to the
\* first element process_request raises on
HandlersCalled(items) ==
    IF items = <<>> \/ ProcessRaises(Head(items)) THEN <<>>
    ELSE (IF CallsHandler(Head(items)) THEN <<Head(items).method[1]>> ELSE <<>>)
         \o HandlersCalled(Tail(items))

\* whether request.get('method', '---') of the log line (lines 577-579)
\* raises: `request' is by then the parsed JSON value, or still the
\* HttpParser when json.loads failed
LogLineRaises(req) ==
    IF req.parses THEN req.json.t # "dict" ELSE ~req.parser_get

RpcInit == HashIdle /\ BlocksIdle /\ CacheIdle /\ RpcIdle /\ MpIdle

\* handle_request(request).  The handler keeps nothing from one request to
\* the next, so a behaviour handles one request.
handle_request ==
    /\ rpcReq = NoRequest
    /\ \E req \in HttpRequests :
        /\ rpcReq' = req
        /\ IF req.http_method = "OPTIONS"
           THEN /\ rpcResponse' = NoResponse
                /\ rpcQueued' = <<[options |-> TRUE, array |-> FALSE, items |-> <<>>]>>
                /\ rpcCalls' = <<>>
                /\ rpcRaised' = None
           ELSE /\ rpcResponse' = BuildResponse(req)
                /\ rpcCalls' = IF ~req.parses THEN <<>>
                               ELSE IF req.json.t = "list"
                               THEN HandlersCalled(req.json.items)
                               ELSE HandlersCalled(<<req.json>>)
                /\ IF LogLineRaises(req)
                   THEN /\ rpcQueued' = <<>>
                        /\ rpcRaised' = Some("AttributeError")
                   ELSE /\ rpcQueued' =
                              <<[options |-> FALSE,
                                 array |-> BuildResponse(req).array,
                                 items |-> BuildResponse(req).items]>>
                        /\ rpcRaised' = None

RpcNext ==
    handle_request
        /\ UNCHANGED <<sendVars, gmVars, hashVars, blockVars, cacheVars, mpVars>>

SpecRpc == RpcInit /\ [][RpcNext]_vars

(***************************************************************************)
(* The mempool behind MPService (mempool_service.py).  MPService hands    *)
(* every request to MemPool, OperatorResourceMng and MemPoolReplicator;   *)
(* their behaviour is taken from the design of the mempool (admission,    *)
(* scheduler pass, resource leases), the service's own code from          *)
(* mempool_service.py.                                                     *)
(***************************************************************************)
MaxNonce == 1
MaxSubmits == 2

GasPrices == {100, 110}

\* gas prices below the minimum and below the 10% bump over 100
LowGasPrices == {99, 109}

\* a transaction is identified by its signature: one signature per content;
\* the low gas prices are offered at nonce 0
Txs ==
    {Tx(a, n, g) : a \in Senders, n \in 0..MaxNonce, g \in GasPrices}
    \cup {Tx(a, 0, g) : a \in Senders, g \in LowGasPrices}

\* tx.gas_price < gas_price.minimum
Underpriced(tx) == tx.gas_price < 100

\* the queued transaction colliding with tx on (sender, nonce), if any
Incumbents(queue, tx) ==
    {q \in queue : q.tx.sender = tx.sender /\ q.tx.nonce = tx.nonce}

\* a replacement rule that asks for more than the 10% bump
MutReplaces(tx, incumbent) == 10 * tx.gas_price > 11 * incumbent.gas_price

\* gas_price >= 1.10 x incumbent.gas_price
Replaces(tx, incumbent) == 10 * tx.gas_price >= 11 * incumbent.gas_price

RECURSIVE PendingFrom(_, _, _)
\* the first nonce from n on that sender has not queued
PendingFrom(queue, sender, n) ==
    IF \E q \in queue : q.tx.sender = sender /\ q.tx.nonce = n
    THEN PendingFrom(queue, sender, n + 1)
    ELSE n

\* get_pending_tx_nonce(sender)
PendingNonce(queue, onchain, sender) == PendingFrom(queue, sender, onchain[sender])

\* the outcome of the admission checks of a submit, in their order
SubmitOutcome(queue, cache, onchain, tx) ==
    IF tx \in cache THEN "DuplicateKnown"
    ELSE IF Underpriced(tx) THEN "Rejected"
    ELSE IF tx.nonce < onchain[tx.sender] THEN "NonceTooLow"
    ELSE IF Incumbents(queue, tx) # {}
    THEN IF \A q \in Incumbents(queue, tx) : Replaces(tx, q.tx)
         THEN "Accepted" ELSE "UnderpricedReplacement"
    ELSE IF tx.nonce > PendingNonce(queue, onchain, tx.sender) THEN "NonceGap"
    ELSE "Accepted"

\* the queue after the submit: the transaction enqueued, in place of the
\* incumbent it replaces
Enqueue(queue, cache, onchain, tx, seq) ==
    IF SubmitOutcome(queue, cache, onchain, tx) \in {"Accepted", "NonceGap"}
    THEN (queue \ Incumbents(queue, tx)) \cup {[tx |-> tx, seq |-> seq]}
    ELSE queue

\* try_acquire that hands out the first resource of the pool, leased or not
MutTryAcquire(tx, inflight, free) ==
    IF free = {} \/ (\E d \in inflight : d.tx = tx) THEN None
    ELSE Some(CHOOSE r \in Resources : \A o \in Resources : r <= o)

\* try_acquire(signature): a free resource, none when the pool is
\* exhausted or the signature already holds a lease
TryAcquire(tx, inflight, free) ==
    IF free = {} \/ (\E d \in inflight : d.tx = tx) THEN None
    ELSE Some(CHOOSE r \in free : \A o \in free : r <= o)

\* the heads of the per-sender queues, whatever the on-chain nonce
MutReadyHeads(queue, onchain) ==
    {q \in queue :
        \A o \in queue : o.tx.sender = q.tx.sender => q.tx.nonce <= o.tx.nonce}

\* the heads of the per-sender queues whose nonce is the on-chain nonce
ReadyHeads(queue, onchain) ==
    {q \in queue :
        /\ \A o \in queue : o.tx.sender = q.tx.sender => q.tx.nonce <= o.tx.nonce
        /\ q.tx.nonce = onchain[q.tx.sender]}

\* the highest gas price among the ready heads, the earliest submit first
BestReady(ready) ==
    CHOOSE q \in ready : \A o \in ready :
        \/ q.tx.gas_price > o.tx.gas_price
        \/ q.tx.gas_price = o.tx.gas_price /\ q.seq <= o.seq

RECURSIVE MutSchedulerPass(_, _, _, _, _, _)
\* a scheduler pass that does not look at the suspend flag
MutSchedulerPass(queue, inflight, free, history, onchain, suspended) ==
    LET ready == ReadyHeads(queue, onchain)
    IN  IF free = {} \/ ready = {}
        THEN <<queue, inflight, free, history>>
        ELSE LET best == BestReady(ready)
                 lease == TryAcquire(best.tx, inflight, free)
             IN  IF lease = None
                 THEN <<queue, inflight, free, history>>
                 ELSE MutSchedulerPass(
                        queue \ {best},
                        inflight \cup {[tx |-> best.tx, resource_id |-> lease[1]]},
                        free \ {lease[1]},
                        [history EXCEPT ![best.tx.sender] = Append(@, best.tx.nonce)],
                        onchain, suspended)

RECURSIVE SchedulerPass(_, _, _, _, _, _)
\* the scheduler pass: <<queue, inflight, free, history>> after it
SchedulerPass(queue, inflight, free, history, onchain, suspended) ==
    LET ready == ReadyHeads(queue, onchain)
    IN  IF suspended \/ free = {} \/ ready = {}
        THEN <<queue, inflight, free, history>>
        ELSE LET best == BestReady(ready)
                 lease == TryAcquire(best.tx, inflight, free)
             IN  IF lease = None
                 THEN <<queue, inflight, free, history>>
                 ELSE SchedulerPass(
                        queue \ {best},
                        inflight \cup {[tx |-> best.tx, resource_id |-> lease[1]]},
                        free \ {lease[1]},
                        [history EXCEPT ![best.tx.sender] = Append(@, best.tx.nonce)],
                        onchain, suspended)

\* the pool after a scheduler pass from the given queue, leases and nonces
RunScheduler(queue, inflight, free, onchain, suspended) ==
    LET r == SchedulerPass(queue, inflight, free, mpHistory, onchain, suspended)
    IN  /\ mpQueue' = r[1]
        /\ mpInflight' = r[2]
        /\ mpFree' = r[3]
        /\ mpHistory' = r[4]

\* what a submit that collides with an incumbent met and did: the gas
\* prices of the two, the outcome, and what became of the queue
SubmitRecord(queue, cache, onchain, tx, seq) ==
    LET inc == Incumbents(queue, tx)
        after == Enqueue(queue, cache, onchain, tx, seq)
    IN  IF inc = {} THEN mpLastSubmit
        ELSE [collides |-> TRUE,
              gas_price |-> tx.gas_price,
              incumbent |-> (CHOOSE q \in inc : TRUE).tx.gas_price,
              outcome |-> SubmitOutcome(queue, cache, onchain, tx),
              replaced |-> /\ inc \cap after = {}
                           /\ [tx |-> tx, seq |-> seq] \in after,
              kept |-> after = queue]

\* MemPool.schedule_mp_tx_request(tx_request): admission, then the pass
Submit(tx) ==
    /\ mpSeq' = mpSeq + 1
    /\ mpLastSubmit' = SubmitRecord(mpQueue, mpCache, mpOnChain, tx, mpSeq)
    /\ RunScheduler(Enqueue(mpQueue, mpCache, mpOnChain, tx, mpSeq),
                    mpInflight, mpFree, mpOnChain, mpSuspended)
    /\ UNCHANGED <<mpOnChain, mpSuspended, mpCache>>

\* the values on_data_received returns
Result(text) == [kind |-> "Result", text |-> text, num |-> 0]
Value(kind, text, num) == [kind |-> kind, text |-> text, num |-> num]

\* the attributes of the request classes: an MPRequest carries req_id and
\* type, a MaintenanceRequest req_id and command
RequestAttrs(class) ==
    IF class = "MPRequest" THEN {"req_id", "type"}
    ELSE IF class = "MaintenanceRequest" THEN {"req_id", "command"}
    ELSE {}

MPRequestTypes ==
    {"SendTransaction", "GetLastTxNonce", "GetTxByHash", "GetGasPrice"}

MaintenanceCommands ==
    {"SuspendMemPool", "ResumeMemPool", "ReplicateRequests", "ReplicateTxsBunch"}

\* the requests delivered to on_data_received; fails: the handling raises
ServiceRequests ==
    {Request("MPRequest", "SendTransaction", tx, f) : tx \in Txs, f \in BOOLEAN}
    \cup {Request("MPRequest", t, Tx(a, 0, 0), f) :
            t \in MPRequestTypes \ {"SendTransaction"}, a \in Senders, f \in BOOLEAN}
    \cup {Request("MPRequest", "Unknown", NoTx, FALSE)}
    \cup {Request("MaintenanceRequest", "ReplicateTxsBunch", tx, f) :
            tx \in Txs, f \in BOOLEAN}
    \cup {Request("MaintenanceRequest", c, NoTx, f) :
            c \in MaintenanceCommands \ {"ReplicateTxsBunch"}, f \in BOOLEAN}
    \cup {Request("MaintenanceRequest", "Unknown", NoTx, FALSE)}
    \cup {Request("Other", "", NoTx, FALSE)}

\* process_mp_request(mp_request), lines 60-72: the value returned
ProcessMpRequestValue(request) ==
    CASE request.type = "SendTransaction" ->
            Some(Value("outcome",
                       SubmitOutcome(mpQueue, mpCache, mpOnChain, request.tx), 0))
      [] request.type = "GetLastTxNonce" ->
            Some(Value("nonce", "",
                       PendingNonce(mpQueue, mpOnChain, request.tx.sender)))
      [] request.type = "GetTxByHash" -> Some(Value("tx", "", 0))
      [] request.type = "GetGasPrice" -> Some(Value("gas_price", "", 100))
      [] OTHER -> None

\* process_maintenance_request(request), lines 74-86: the value returned
ProcessMaintenanceValue(request) ==
    CASE request.type = "SuspendMemPool" -> Some(Result("suspended"))
      [] request.type = "ResumeMemPool" -> Some(Result("resumed"))
      [] request.type = "ReplicateRequests" -> Some(Result("replicated"))
      [] request.type = "ReplicateTxsBunch" -> Some(Result("bunch"))
      [] OTHER -> None

\* the effect of handling the request on the mempool
HandleEffect(request) ==
    IF request.type \in {"SendTransaction", "ReplicateTxsBunch"}
    THEN Submit(request.tx)
    ELSE IF request.type \in {"SuspendMemPool", "ResumeMemPool"}
    THEN /\ mpSuspended' = (request.type = "SuspendMemPool")
         /\ UNCHANGED <<mpQueue, mpInflight, mpFree, mpOnChain, mpCache, mpSeq,
                        mpHistory, mpLastSubmit>>
    ELSE UNCHANGED poolVars

\* the except branch of on_data_received, lines 49-52: it reads
\* mp_request.req_id and mp_request.command before it returns
ExceptBranch(request) ==
    IF {"req_id", "command"} \subseteq RequestAttrs(request.class)
    THEN /\ svcRet' = Some(Result("Request failed"))
         /\ svcRaised' = None
    ELSE /\ svcRet' = None
         /\ svcRaised' = Some("AttributeError")

\* on_data_received(mp_request), lines 42-54, for one request
Receive(request) ==
    /\ request.type \in {"SendTransaction", "ReplicateTxsBunch"}
          => mpSeq < MaxSubmits
    /\ svcReq' = Request(request.class, request.type, NoTx, request.fails)
    /\ svcHandlerRaised' = request.fails
    /\ IF request.class \in {"MPRequest", "MaintenanceRequest"}
       THEN IF request.fails
            THEN ExceptBranch(request) /\ UNCHANGED poolVars
            ELSE /\ svcRet' = IF request.class = "MPRequest"
                              THEN ProcessMpRequestValue(request)
                              ELSE ProcessMaintenanceValue(request)
                 /\ svcRaised' = None
                 /\ HandleEffect(request)
       ELSE /\ svcRet' = Some(Result("Unexpected problem"))
            /\ svcRaised' = None
            /\ UNCHANGED poolVars

\* on_data_received(mp_request) for every request the sockets deliver
on_data_received == \E request \in ServiceRequests : Receive(request)

\* the requests whose handling reaches the queue or the suspend flag
MempoolRequests ==
    {r \in ServiceRequests :
        /\ ~r.fails
        /\ r.type \in {"SendTransaction", "ReplicateTxsBunch",
                        "SuspendMemPool", "ResumeMemPool"}}

\* on_data_received(mp_request) for those requests
on_mempool_request == \E request \in MempoolRequests : Receive(request)

\* the ways the execution of a dispatch ends: the executor completes it
\* (success or terminal failure), its timeout aborts it, or its worker crashes
ExecutionEnds == {"success", "failure", "timeout", "crash"}

\* a release that leaves the resource leased
MutRelease(free, resource_id) == free

\* the lease is released: the resource is back in the free pool
Release(free, resource_id) == free \cup {resource_id}

\* the execution on resource_id ends: the lease is released; a completed
\* execution puts the signature in the transaction cache, a success advances
\* the sender's on-chain nonce; on_resource_released(resource_id) (lines
\* 101-102) then re-runs the scheduler pass
on_resource_released(resource_id) ==
    \E d \in mpInflight, end \in ExecutionEnds :
        /\ d.resource_id = resource_id
        /\ end = "success" => d.tx.nonce = mpOnChain[d.tx.sender]
        /\ mpCache' = IF end \in {"success", "failure"}
                      THEN mpCache \cup {d.tx} ELSE mpCache
        /\ mpOnChain' = IF end = "success"
                        THEN [mpOnChain EXCEPT ![d.tx.sender] = @ + 1]
                        ELSE mpOnChain
        /\ RunScheduler(mpQueue, mpInflight \ {d},
                        Release(mpFree, d.resource_id), mpOnChain', mpSuspended)
        /\ UNCHANGED <<mpSuspended, mpSeq, mpLastSubmit, svcVars>>

\* the periodic tick of the scheduler
SchedulerTick ==
    /\ RunScheduler(mpQueue, mpInflight, mpFree, mpOnChain, mpSuspended)
    /\ UNCHANGED <<mpOnChain, mpSuspended, mpCache, mpSeq, mpLastSubmit,
                   svcVars>>

\* the sweep of the transaction cache drops an expired signature
CacheExpire ==
    \E tx \in mpCache :
        /\ mpCache' = mpCache \ {tx}
        /\ UNCHANGED <<mpQueue, mpInflight, mpFree, mpOnChain, mpSuspended,
                       mpSeq, mpHistory, mpLastSubmit, svcVars>>

MpInit == HashIdle /\ BlocksIdle /\ CacheIdle /\ RpcIdle /\ MpIdle

MpNext ==
    \/ on_data_received /\ UNCHANGED <<hashVars, blockVars, cacheVars, rpcVars>>
    \/ \E r \in Resources :
        on_resource_released(r) /\ UNCHANGED <<hashVars, blockVars, cacheVars, rpcVars>>
    \/ SchedulerTick /\ UNCHANGED <<hashVars, blockVars, cacheVars, rpcVars>>
    \/ CacheExpire /\ UNCHANGED <<hashVars, blockVars, cacheVars, rpcVars>>

SpecMempool == MpInit /\ [][MpNext]_vars

\* every execution ends (the executor completes it, times it out or its
\* worker crashes), and the periodic tick keeps firing
MpFairness ==
    /\ \A r \in Resources :
        WF_vars(on_resource_released(r)
                /\ UNCHANGED <<hashVars, blockVars, cacheVars, rpcVars>>)
    /\ WF_vars(SchedulerTick /\ UNCHANGED <<hashVars, blockVars, cacheVars, rpcVars>>)

\* the mempool under the requests that reach it: SpecPool for the properties
\* of the queue and the leases, SpecMempoolLive for what eventually happens
MpLiveNext ==
    \/ on_mempool_request /\ UNCHANGED <<hashVars, blockVars, cacheVars, rpcVars>>
    \/ \E r \in Resources :
        on_resource_released(r) /\ UNCHANGED <<hashVars, blockVars, cacheVars, rpcVars>>
    \/ SchedulerTick /\ UNCHANGED <<hashVars, blockVars, cacheVars, rpcVars>>
    \/ CacheExpire /\ UNCHANGED <<hashVars, blockVars, cacheVars, rpcVars>>

SpecPool == MpInit /\ [][MpLiveNext]_vars

SpecMempoolLive == MpInit /\ [][MpLiveNext]_vars /\ MpFairness

(***************************************************************************)
(* EthereumModel.eth_sendRawTransaction (solana_rest_api.py)               *)
(***************************************************************************)
MINIMAL_GAS_PRICE == 1

\* eth_getTransactionCount(account, tag) as an int: the account's
\* transaction count, 0 when the account cannot be read
EthGetTransactionCount(account) ==
    IF account = None THEN 0 ELSE account[1]

\* EthereumError(-32002, ..., {'logs': [... acc {}, trx {} ...]})
NonceError(nonce, trx_nonce) ==
    SendError("EthereumError", -32002, "Verifying nonce before send transaction",
              Some([acc |-> nonce, trx |-> trx_nonce]))

\* eth_sendRawTransaction with the nonce compared after the back end ran
MutEthSendRawTransaction(trx) ==
    IF ~trx.decodes
    THEN SendResult(None, Some(SendError("Exception", 0, "fromString", None)), <<>>)
    ELSE IF trx.gasPrice < MINIMAL_GAS_PRICE
    THEN SendResult(None, Some(SendError("Exception", 0, "gasPrice", None)), <<>>)
    ELSE LET nonce == EthGetTransactionCount(trx.account)
         IN  IF trx.call_signed # "return"
             THEN SendResult(None, Some(SendError(trx.call_signed, 0, "call_signed", None)),
                             <<"call_signed">>)
             ELSE IF nonce # trx.nonce
             THEN SendResult(None, Some(NonceError(nonce, trx.nonce)), <<"call_signed">>)
             ELSE IF trx.submit_transaction # "return"
             THEN SendResult(None,
                             Some(SendError(trx.submit_transaction, 0,
                                            "submit_transaction", None)),
                             <<"call_signed", "submit_transaction">>)
             ELSE SendResult(Some("eth_signature"), None,
                             <<"call_signed", "submit_transaction">>)

\* eth_sendRawTransaction(rawTrx), lines 376-417
EthSendRawTransaction(trx) ==
    IF ~trx.decodes
    THEN SendResult(None, Some(SendError("Exception", 0, "fromString", None)), <<>>)
    ELSE IF trx.gasPrice < MINIMAL_GAS_PRICE
    THEN SendResult(None, Some(SendError("Exception", 0, "gasPrice", None)), <<>>)
    ELSE LET nonce == EthGetTransactionCount(trx.account)
         IN  IF nonce # trx.nonce
             THEN SendResult(None, Some(NonceError(nonce, trx.nonce)), <<>>)
             ELSE IF trx.call_signed # "return"
             THEN SendResult(None, Some(SendError(trx.call_signed, 0, "call_signed", None)),
                             <<"call_signed">>)
             ELSE IF trx.submit_transaction # "return"
             THEN SendResult(None,
                             Some(SendError(trx.submit_transaction, 0,
                                            "submit_transaction", None)),
                             <<"call_signed", "submit_transaction">>)
             ELSE SendResult(Some("eth_signature"), None,
                             <<"call_signed", "submit_transaction">>)

\* the raw transactions sent: gas prices around the minimum, nonces and
\* transaction counts up to MaxNonce, an account that cannot be read
RawTrxs ==
    {RawTrx(d, g, n, a, c, t) :
        d \in BOOLEAN,
        g \in (MINIMAL_GAS_PRICE - 1)..(MINIMAL_GAS_PRICE + 1),
        n \in 0..MaxNonce,
        a \in {None} \cup {Some(k) : k \in 0..MaxNonce},
        c \in {"return", "SolanaTrxError", "EthereumError", "Exception"},
        t \in {"return", "Exception"}}

SendInit == HashIdle /\ BlocksIdle /\ CacheIdle /\ RpcIdle /\ MpIdle

\* eth_sendRawTransaction(rawTrx).  The call keeps nothing for the next
\* one, so a behaviour sends one transaction.
eth_sendRawTransaction ==
    /\ sendReq = NoSend
    /\ \E trx \in RawTrxs :
        /\ sendReq' = trx
        /\ sendRet' = EthSendRawTransaction(trx)
        /\ sendCalls' = EthSendRawTransaction(trx).calls
    /\ UNCHANGED <<rpcReq, rpcResponse, rpcQueued, rpcCalls, rpcRaised, gmVars>>

SendNext ==
    eth_sendRawTransaction /\ UNCHANGED <<hashVars, blockVars, cacheVars, mpVars>>

SpecSend == SendInit /\ [][SendNext]_vars

(***************************************************************************)
(* SolanaProxyPlugin.__init__ / getModel (solana_rest_api.py): threads of  *)
(* one process construct plugins; each step of getModel is one action, so  *)
(* that the threads interleave between any two lines.                      *)
(***************************************************************************)
\* a with-statement that enters whoever holds the lock
MutLockFree(lock) == TRUE

\* with modelInstanceLock: the lock can be taken when nobody holds it
LockFree(lock) == lock = None

ModelInit == HashIdle /\ BlocksIdle /\ CacheIdle /\ RpcIdle /\ MpIdle

\* line 512: enter the with block
AcquireLock(t) ==
    /\ gmPc[t] = "start"
    /\ LockFree(modelInstanceLock)
    /\ modelInstanceLock' = Some(t)
    /\ gmPc' = [gmPc EXCEPT ![t] = "test"]
    /\ UNCHANGED <<modelInstance, gmModel, gmCalls, gmBuilt>>

\* line 513: if modelInstance is None
TestInstance(t) ==
    /\ gmPc[t] = "test"
    /\ gmPc' = [gmPc EXCEPT ![t] =
                    IF modelInstance = None THEN "construct" ELSE "return"]
    /\ UNCHANGED <<modelInstance, modelInstanceLock, gmModel, gmCalls, gmBuilt>>

\* line 514: modelInstance = EthereumModel().  The constructor returns a new
\* object, or raises (lines 55-65): the exception leaves the with block,
\* which releases the lock, and then getModel and __init__
ConstructModel(t) ==
    /\ gmPc[t] = "construct"
    /\ gmCalls' = gmCalls + 1
    /\ \E succeeds \in BOOLEAN :
        IF succeeds
        THEN /\ modelInstance' = Some(gmCalls + 1)
             /\ gmBuilt' = gmBuilt + 1
             /\ gmPc' = [gmPc EXCEPT ![t] = "return"]
             /\ UNCHANGED <<modelInstanceLock, gmModel>>
        ELSE /\ gmPc' = [gmPc EXCEPT ![t] = "raised"]
             /\ modelInstanceLock' =
                    IF modelInstanceLock = Some(t) THEN None ELSE modelInstanceLock
             /\ UNCHANGED <<modelInstance, gmBuilt, gmModel>>

\* line 515 and line 506: return modelInstance, leaving the with block;
\* self.model = the value returned
ReturnModel(t) ==
    /\ gmPc[t] = "return"
    /\ gmModel' = [gmModel EXCEPT ![t] = modelInstance]
    /\ modelInstanceLock' =
            IF modelInstanceLock = Some(t) THEN None ELSE modelInstanceLock
    /\ gmPc' = [gmPc EXCEPT ![t] = "done"]
    /\ UNCHANGED <<modelInstance, gmCalls, gmBuilt>>

ModelOthers ==
    <<rpcReq, rpcResponse, rpcQueued, rpcCalls, rpcRaised, sendVars,
      hashVars, blockVars, cacheVars, mpVars>>

ModelNext ==
    \/ \E t \in Threads : AcquireLock(t) /\ UNCHANGED ModelOthers
    \/ \E t \in Threads : TestInstance(t) /\ UNCHANGED ModelOthers
    \/ \E t \in Threads : ConstructModel(t) /\ UNCHANGED ModelOthers
    \/ \E t \in Threads : ReturnModel(t) /\ UNCHANGED ModelOthers

SpecModel == ModelInit /\ [][ModelNext]_vars

(***************************************************************************)
(* SpecHash: the two static methods applied to slots drawn from the       *)
(* boundaries of the encoding (hex-length changes, leading f digits,      *)
(* 2^40 and 2^48 - 1), and to negative slots.                              *)
(***************************************************************************)
HashLimbInputs ==
    {0, 1, 15, 16, 255, 256, 4660, 4095, 65535, 65536, 983040,
     1048575, 1048576, 15728640, 16777215}

HashSlotInputs ==
    [neg : {FALSE}, hi : HashLimbInputs, lo : HashLimbInputs]
        \cup {Wide(-1), Wide(-16)}

HashInit ==
    /\ hSlot \in HashSlotInputs
    /\ hHash = <<>>
    /\ hDecoded = None
    /\ hPc = "start"
    /\ BlocksIdle
    /\ CacheIdle
    /\ RpcIdle
    /\ MpIdle

HashEncode ==
    /\ hPc = "start"
    /\ hHash' = GenerateFakeBlockHash(hSlot)
    /\ hPc' = "encoded"
    /\ UNCHANGED <<hSlot, hDecoded, blockVars, cacheVars, rpcVars, mpVars>>

HashDecode ==
    /\ hPc = "encoded"
    /\ hDecoded' = GetFakeBlockSlot(hHash)
    /\ hPc' = "decoded"
    /\ UNCHANGED <<hSlot, hHash, blockVars, cacheVars, rpcVars, mpVars>>

HashNext == HashEncode \/ HashDecode

SpecHash == HashInit /\ [][HashNext]_vars

(***************************************************************************)
(* Properties                                                              *)
(***************************************************************************)

\* C1 (as stated): for every slot s with 0 <= s < 2^48, decoding the
\* synthetic hash of s returns s.
C1_RoundTrip48 ==
    (hPc = "decoded" /\ ~hSlot.neg) => hDecoded = Some(hSlot)

\* C1 (amended): decoding the synthetic hash of s returns s for every
\* 0 <= s < 2^40, and None for 2^40 <= s < 2^48 (the 12-character limit of
\* the decoder counts the "00" sentinel).
C1_RoundTrip40 ==
    (hPc = "decoded" /\ ~hSlot.neg) =>
        IF hSlot.hi < 65536 THEN hDecoded = Some(hSlot) ELSE hDecoded = None

\* the round trip at the largest slot it holds for, 2^40 - 1
C1_Witness ==
    /\ hPc = "decoded"
    /\ hSlot = [neg |-> FALSE, hi |-> 65535, lo |-> 16777215]
    /\ hDecoded = Some(hSlot)

\* C2: every stored block row satisfies is_finalized => is_active, after any
\* sequence of set_block_list, finalize_block_list and activate_block_list.
C2_FinalizedImpliesActive ==
    \A s \in DOMAIN table : table[s].is_finalized => table[s].is_active

\* C3: immediately after activate_block_list(base, S), a stored row with
\* slot > base is active if and only if its slot is in S.
C3_BranchSwitch ==
    bLast.op = "activate_block_list" =>
        \A s \in DOMAIN table :
            s > bLast.base => (table[s].is_active <=> s \in Elems(bLast.slots))

\* after an activate_block_list, a row of S above base is active and a
\* finalized row above base that is not in S has been deactivated
C3_Witness ==
    /\ bLast.op = "activate_block_list"
    /\ \E s, u \in DOMAIN table :
        /\ s > bLast.base /\ s \in Elems(bLast.slots) /\ table[s].is_active
        /\ u > bLast.base /\ u \notin Elems(bLast.slots)
        /\ table[u].is_finalized /\ ~table[u].is_active

Max(S) == CHOOSE m \in S : \A o \in S : o <= m

\* the rows of S are finalized and active after finalize_block_list(base, S)
FinalizedAndActive ==
    \A s \in Elems(bLast.slots) \cap DOMAIN table :
        table[s].is_finalized /\ table[s].is_active

\* C4 (as stated): immediately after finalize_block_list(base, S), S in any
\* order, the stored rows of S are finalized and active and no inactive row
\* remains strictly between base and max(S).
C4_FinalizeMax ==
    bLast.op = "finalize_block_list" =>
        /\ FinalizedAndActive
        /\ \A s \in DOMAIN table :
            (bLast.base < s /\ s < Max(Elems(bLast.slots))) => table[s].is_active

\* C4 (amended): ... and no inactive row remains strictly between base and
\* the last element of S (which is max(S) when S is ascending).
C4_FinalizeLast ==
    bLast.op = "finalize_block_list" =>
        /\ FinalizedAndActive
        /\ \A s \in DOMAIN table :
            (bLast.base < s /\ s < bLast.slots[Len(bLast.slots)])
                => table[s].is_active

\* a finalize_block_list that finalized a stored row and deleted an inactive one
C4_Witness ==
    /\ bLast.op = "finalize_block_list"
    /\ bLast.gone # {}
    /\ Elems(bLast.slots) \cap DOMAIN table # {}
    /\ FinalizedAndActive

\* C5: an item added for signature g at time t0 is returned by get(g) at
\* every time in [t0, t0 + TTL), under any interleaving of add and clear;
\* and, g not being added again, get(g) returns none after a clear() run
\* later than t0 + TTL.
C5_CacheTTL ==
    \A g \in Signatures :
        cLastAdd[g] # None =>
            /\ now < cLastAdd[g][1] + _life_time => Get(g) # None
            /\ cSwept[g] => Get(g) = None

\* C6: the lookup map and the expiry queue hold the same set of items:
\* every item of the queue is the item the map holds for its signature,
\* and every item of the map is in the queue.
C6_SameSet ==
    /\ \A i \in 1..Len(neon_tx_queue) :
        /\ neon_tx_queue[i].neon_sig \in DOMAIN neon_tx_dict
        /\ neon_tx_dict[neon_tx_queue[i].neon_sig] = neon_tx_queue[i]
    /\ \A g \in DOMAIN neon_tx_dict :
        \E i \in 1..Len(neon_tx_queue) : neon_tx_queue[i] = neon_tx_dict[g]

\* C7: for a batch [r1..rn], n >= 1, of request objects, handle_request
\* sends back one array of n responses, the i-th being the result of
\* processing ri and carrying ri's id.
C7_BatchOrder ==
    LET items == rpcReq.json.items
    IN  (/\ rpcReq.parses
         /\ rpcReq.json.t = "list"
         /\ Len(items) >= 1
         /\ \A i \in 1..Len(items) : items[i].t = "dict")
        =>
        /\ Len(rpcQueued) = 1
        /\ rpcQueued[1].array
        /\ Len(rpcQueued[1].items) = Len(items)
        /\ \A i \in 1..Len(items) :
            /\ rpcQueued[1].items[i] = ProcessRequest(items[i])
            /\ rpcQueued[1].items[i].id = items[i].id

\* C8: if handling a request delivered to on_data_received raises, service
\* and maintenance requests alike, on_data_received returns
\* Result("Request failed") and no exception propagates.
C8_RequestFailed ==
    svcHandlerRaised =>
        /\ svcRet = Some(Result("Request failed"))
        /\ svcRaised = None

\* C9 (as stated): for every sender, the nonces of the transactions that go
\* Queued -> Dispatched are strictly increasing.
C9_StrictlyIncreasing ==
    \A a \in Senders : \A i, j \in 1..Len(mpHistory[a]) :
        i < j => mpHistory[a][i] < mpHistory[a][j]

\* C9 (amended): for every sender, the nonces of the transactions that go
\* Queued -> Dispatched never decrease (a nonce is dispatched again when a
\* fresh submit re-uses it before it is committed).
C9_NonDecreasing ==
    \A a \in Senders : \A i, j \in 1..Len(mpHistory[a]) :
        i < j => mpHistory[a][i] <= mpHistory[a][j]

\* a sender whose nonce 0 and then nonce 1 were dispatched
C9_Witness ==
    \E a \in Senders : mpHistory[a] = <<0, 1>>

Dispatched ==
    Cardinality(UNION {{<<a, i>> : i \in 1..Len(mpHistory[a])} : a \in Senders})

\* the number of executions that ended so far
Ended == Dispatched - Cardinality(mpInflight)

\* a scheduler pass has nothing left to dispatch
PassDone ==
    SchedulerPass(mpQueue, mpInflight, mpFree, mpHistory, mpOnChain, mpSuspended)
        = <<mpQueue, mpInflight, mpFree, mpHistory>>

\* the step in which an execution ends leaves every resource either free or
\* leased to a dispatch in flight, and the scheduler pass has been re-run
ReleaseStep ==
    Ended' > Ended =>
        /\ {d.resource_id : d \in mpInflight'} = Resources \ mpFree'
        /\ Cardinality(mpInflight') + Cardinality(mpFree') = PoolSize
        /\ PassDone'

\* C11: every acquired resource lease is eventually released, whichever way
\* the execution ends (success, terminal failure, timeout, crash): the
\* resource returns to the free pool and a scheduler pass is re-run.
C11_LeaseReleased ==
    /\ \A r \in Resources : (r \notin mpFree) ~> (r \in mpFree)
    /\ [][ReleaseStep]_vars

\* two executions ended, and both resources are free again
C11_Witness ==
    /\ Ended = 2
    /\ mpInflight = {}
    /\ mpFree = Resources

\* a ready head is queued and try_acquire would grant it a lease
Dispatchable ==
    LET ready == ReadyHeads(mpQueue, mpOnChain)
    IN  /\ ready # {}
        /\ TryAcquire(BestReady(ready).tx, mpInflight, mpFree) # None

\* from a suspended mempool no step dispatches, and a submit accepted while
\* suspended stays queued
SuspendedStep ==
    mpSuspended =>
        /\ Dispatched' = Dispatched
        /\ (mpSeq' > mpSeq /\ svcRet' = Some(Value("outcome", "Accepted", 0)))
              => \E q \in mpQueue' : q.seq = mpSeq

\* C12: while the mempool is suspended no transaction goes Queued ->
\* Dispatched, submits are still accepted and queued and the executions in
\* flight still end; once the mempool is not suspended, a queued ready
\* transaction with a resource free for it is eventually dispatched, for as
\* long as it stays ready (another execution may commit its nonce first) and
\* the mempool is not suspended again.
C12_SuspendResume ==
    /\ [][SuspendedStep]_vars
    /\ (mpSuspended /\ mpInflight # {}) ~> (~mpSuspended \/ mpInflight = {})
    /\ \A n \in 0..(MaxSubmits - 1) :
        (~mpSuspended /\ Dispatchable /\ Dispatched = n)
            ~> (mpSuspended \/ Dispatched > n \/ ~Dispatchable)

\* the mempool has just been resumed with a ready transaction queued while
\* it was suspended and a resource free for it
C12_Witness ==
    /\ svcReq.type = "ResumeMemPool"
    /\ ~svcReq.fails
    /\ ~mpSuspended
    /\ Dispatchable

\* ceil(1.10 x gas_price)
Ceil110(gas_price) == (11 * gas_price + 9) \div 10

\* the last submit was stopped by an admission check that comes before the
\* collision check
StoppedBeforeCollision ==
    mpLastSubmit.outcome \in {"DuplicateKnown", "Rejected", "NonceTooLow"}

Is32Bytes(block_hash) ==
    /\ block_hash # None
    /\ Len(block_hash[1]) = 66
    /\ Prefix(block_hash[1], 2) = HashPrefix
    /\ \A i \in 3..66 : \E k \in 1..16 : HexChars[k] = block_hash[1][i]

\* a read has returned a block
HasReturned == qReq.op # "none" /\ qRet.raised = None

\* the read is answered with a stub: a slot above the tip, or a hash that is
\* neither synthetic nor stored
StubRead ==
    \/ qReq.op = "get_block_by_slot" /\ qReq.block_slot > qReq.latest_block_slot
    \/ /\ qReq.op = "get_block_by_hash"
       /\ LET fake_block_slot == GetFakeBlockSlot(qReq.block_hash)
          IN  IF fake_block_slot # None
              THEN SlotNumber(fake_block_slot[1]) > qReq.latest_block_slot
              ELSE HashQuery(table, qReq.block_hash) = {}

\* C14 (as stated): every BlockInfo returned by get_by_slot or get_by_hash,
\* for any slot, hash, latest_slot and table, has hash and parent_hash that
\* are both 32-byte values, never absent.
C14_HashesAlways ==
    HasReturned =>
        /\ Is32Bytes(qRet.block.block_hash)
        /\ Is32Bytes(qRet.block.parent_block_hash)

\* C14 (amended): every BlockInfo returned by get_by_slot or get_by_hash that
\* is not a stub (slot above latest_slot, or a hash neither synthetic nor
\* stored) has hash and parent_hash that are both 32-byte values; a stub has
\* no parent_hash, and no hash but the synthetic one it was asked by.
C14_HashesUnlessStub ==
    HasReturned =>
        IF StubRead
        THEN /\ qRet.block.parent_block_hash = None
             /\ qRet.block.block_hash =
                    IF /\ qReq.op = "get_block_by_hash"
                       /\ GetFakeBlockSlot(qReq.block_hash) # None
                    THEN Some(qReq.block_hash) ELSE None
        ELSE /\ Is32Bytes(qRet.block.block_hash)
             /\ Is32Bytes(qRet.block.parent_block_hash)

\* a block returned for a slot below the tip with no row at the slot nor at
\* its parent: both hashes are synthesized
C14_Witness ==
    /\ HasReturned
    /\ qReq.op = "get_block_by_slot"
    /\ qReq.block_slot = 1
    /\ qReq.latest_block_slot = MaxSlot
    /\ DOMAIN table \cap {0, 1} = {}

\* C15: get_by_slot(slot, latest_slot) with slot > latest_slot returns a
\* stub in which only slot is set (hash, time and parent_hash unset),
\* whatever rows the table holds.
C15_StubAboveTip ==
    (qReq.op = "get_block_by_slot" /\ qReq.block_slot > qReq.latest_block_slot)
        =>
        /\ qRet.raised = None
        /\ qRet.block.block_slot = qReq.block_slot
        /\ qRet.block.block_hash = None
        /\ qRet.block.block_time = None
        /\ qRet.block.parent_block_hash = None

\* a stub returned for a slot above the tip whose row and parent row are
\* stored and active
C15_Witness ==
    /\ qReq.op = "get_block_by_slot"
    /\ qReq.block_slot = 2
    /\ qReq.latest_block_slot = 0
    /\ ActiveRow(table, 2) # None
    /\ ActiveRow(table, 1) # None
    /\ qRet.raised = None

\* the hash of the active row at block_slot that stores one, else the
\* synthetic hash of block_slot
StoredOrFake(block_slot) ==
    IF /\ block_slot \in DOMAIN table
       /\ table[block_slot].is_active
       /\ table[block_slot].block_hash # None
    THEN table[block_slot].block_hash
    ELSE Some(FakeHash(block_slot))

\* C16: for slot <= latest_slot, get_by_slot returns hash = the stored hash
\* of the active row at slot if there is one, else the synthetic hash of
\* slot, and parent_hash = the stored hash of the active row at slot - 1 if
\* there is one, else the synthetic hash of slot - 1.
C16_SlotComposition ==
    (/\ HasReturned
     /\ qReq.op = "get_block_by_slot"
     /\ qReq.block_slot <= qReq.latest_block_slot)
        =>
        /\ qRet.block.block_slot = qReq.block_slot
        /\ qRet.block.block_hash = StoredOrFake(qReq.block_slot)
        /\ qRet.block.parent_block_hash = StoredOrFake(qReq.block_slot - 1)

\* a block returned for a slot with no active row whose parent row is
\* active, next to an inactive row at the slot itself
C16_Witness ==
    /\ HasReturned
    /\ qReq.op = "get_block_by_slot"
    /\ qReq.block_slot = 2
    /\ qReq.latest_block_slot = MaxSlot
    /\ 2 \in DOMAIN table /\ ~table[2].is_active
    /\ ActiveRow(table, 1) # None
    /\ qRet.block.parent_block_hash = Some(RealHash(1))

\* the table without its inactive rows
ActiveOnly(tbl) ==
    [s \in {m \in DOMAIN tbl : tbl[m].is_active} |-> tbl[s]]

\* what the read made could end with on the table tbl
ReadOutcomes(tbl) ==
    IF qReq.op = "get_block_by_slot"
    THEN GetBlockBySlot(tbl, qReq.block_slot, qReq.latest_block_slot)
    ELSE GetBlockByHash(tbl, qReq.block_hash, qReq.latest_block_slot)

\* C17: no read takes or derives a field of the BlockInfo it returns from a
\* row with is_active = false: what a read ends with is what it could end
\* with on the table without its inactive rows.
C17_NoInactiveRead ==
    qReq.op # "none" => qRet \in ReadOutcomes(ActiveOnly(table))

\* C18: for a hash h that decodes as the synthetic hash of slot s,
\* get_by_hash(h, latest) ends as get_by_slot(s, latest) does, with the hash
\* field of the block set to h, also when an active row at s stores another
\* hash.
C18_SyntheticDelegates ==
    (qReq.op = "get_block_by_hash" /\ GetFakeBlockSlot(qReq.block_hash) # None)
        =>
        \E r \in GetBlockBySlot(table,
                                SlotNumber(GetFakeBlockSlot(qReq.block_hash)[1]),
                                qReq.latest_block_slot) :
            /\ r.raised = qRet.raised
            /\ r.raised = None =>
                  qRet.block = [r.block EXCEPT !.block_hash = Some(qReq.block_hash)]

\* the synthetic hash of slot 1 was asked for below the tip while the active
\* row at slot 1 stores its own hash: the block carries the synthetic hash
C18_Witness ==
    /\ HasReturned
    /\ qReq.op = "get_block_by_hash"
    /\ qReq.block_hash = FakeHash(1)
    /\ qReq.latest_block_slot = MaxSlot
    /\ ActiveRow(table, 1) # None
    /\ table[1].block_hash = Some(RealHash(1))
    /\ qRet.block.block_hash = Some(FakeHash(1))
    /\ qRet.block.block_slot = 1

\* get_by_slot below the tip has to synthesize the time: no active row at
\* the slot, or one that stores no time
TimeSynthesized ==
    /\ qReq.op = "get_block_by_slot"
    /\ qReq.block_slot <= qReq.latest_block_slot
    /\ \/ ActiveRow(table, qReq.block_slot) = None
       \/ table[qReq.block_slot].block_time = None

\* the nearest stored neighbours of the slot read
LowerRows == {r \in NearestRows(table, qReq.block_slot) : r.lower}
UpperRows == {r \in NearestRows(table, qReq.block_slot) : ~r.lower}

\* C19: a synthesized time lies between the times of the nearest stored
\* neighbours below and above the slot, and is the neighbour's time when the
\* slot is the neighbour's.
C19_TimeMonotone ==
    (TimeSynthesized /\ HasReturned) =>
        \A lo \in LowerRows, up \in UpperRows :
            (lo.block_time # None /\ up.block_time # None) =>
                /\ lo.block_time[1] <= qRet.block.block_time[1]
                /\ qRet.block.block_time[1] <= up.block_time[1]
                /\ qReq.block_slot = lo.block_slot
                      => qRet.block.block_time = lo.block_time
                /\ qReq.block_slot = up.block_slot
                      => qRet.block.block_time = up.block_time

\* ceil(0.4 x d) as ceil(2d / 5)
Ceil04(d) == (2 * d + 4) \div 5

\* the time the rule gives from a neighbour, none if the neighbour has none
RuleTime(row) ==
    IF row.block_time = None THEN None
    ELSE IF row.lower
    THEN Some(row.block_time[1] + Ceil04(qReq.block_slot - row.block_slot))
    ELSE Some(row.block_time[1] - Ceil04(row.block_slot - qReq.block_slot))

\* C20: a synthesized time is t_lower + ceil(0.4 x (s - s_lower)) from the
\* nearest stored row at or below s if there is one, also when there is one
\* above; else t_upper - ceil(0.4 x (s_upper - s)) from the nearest stored
\* row above; else ceil(0.4 x s) + genesis_time.
C20_TimeRule ==
    TimeSynthesized =>
        /\ qRet.raised = None
        /\ qRet.block.block_time =
              IF LowerRows # {} THEN RuleTime(CHOOSE r \in LowerRows : TRUE)
              ELSE IF UpperRows # {} THEN RuleTime(CHOOSE r \in UpperRows : TRUE)
              ELSE Some(Ceil04(qReq.block_slot) + GenesisTime)

\* a single request object whose handler was called and raised
HandlerRaised ==
    /\ rpcReq.parses
    /\ rpcReq.json.t = "dict"
    /\ CallsHandler(rpcReq.json)
    /\ rpcReq.json.outcome # "return"

\* C21: when the handler raises, the response carries no result and its
\* error is: the code, message and data of a domain error (EthereumError);
\* the result payload of a back-end-reported error (SolanaTrxError);
\* {code: -32000, message: str(err)} for any other exception.
C21_ErrorMapping ==
    HandlerRaised =>
        /\ Len(rpcQueued) = 1
        /\ ~rpcQueued[1].array
        /\ Len(rpcQueued[1].items) = 1
        /\ LET r == rpcQueued[1].items[1]
               err == HandlerError(rpcReq.json.outcome)
           IN  /\ r.result = None
               /\ r.error # None
               /\ rpcReq.json.outcome = "EthereumError" =>
                     /\ r.error[1].code = err.code
                     /\ r.error[1].message = err.message
                     /\ r.error[1].data = err.data
               /\ rpcReq.json.outcome = "SolanaTrxError" => r.error[1] = err
               /\ rpcReq.json.outcome = "Exception" =>
                     /\ r.error[1].code = -32000
                     /\ r.error[1].message = err.message
                     /\ r.error[1].data = None

\* a request whose handler raised a domain error was answered with that
\* error's code
C21_Witness ==
    /\ HandlerRaised
    /\ rpcReq.json.outcome = "EthereumError"
    /\ Len(rpcQueued) = 1
    /\ rpcQueued[1].items[1].error # None
    /\ rpcQueued[1].items[1].error[1].code = -32001

\* C22: for an empty JSON array, handle_request sends the client one error
\* response object, not an array, and invokes no handler.
C22_EmptyBatch ==
    (rpcReq.parses /\ rpcReq.json.t = "list" /\ rpcReq.json.items = <<>>)
        =>
        /\ rpcCalls = <<>>
        /\ Len(rpcQueued) = 1
        /\ ~rpcQueued[1].array
        /\ Len(rpcQueued[1].items) = 1
        /\ rpcQueued[1].items[1].error # None

\* a transaction that decodes and offers the minimal gas price was sent
SendAdmitted ==
    /\ sendReq # NoSend
    /\ sendReq.decodes
    /\ sendReq.gasPrice >= MINIMAL_GAS_PRICE

\* C23: eth_sendRawTransaction of a transaction whose nonce differs from
\* the sender's on-chain nonce (the transaction decoding and offering the
\* minimal gas price) raises a domain error of code -32002 whose data.logs
\* names the account nonce and the transaction nonce; then, and when the
\* gas price is below the minimum, neither call_signed nor
\* submit_transaction is invoked.
C23_NonceMismatch ==
    /\ (SendAdmitted /\ EthGetTransactionCount(sendReq.account) # sendReq.nonce)
          =>
          /\ sendRet.value = None
          /\ sendRet.raised # None
          /\ sendRet.raised[1].class = "EthereumError"
          /\ sendRet.raised[1].code = -32002
          /\ sendRet.raised[1].logs =
                Some([acc |-> EthGetTransactionCount(sendReq.account),
                      trx |-> sendReq.nonce])
          /\ sendCalls = <<>>
    /\ (sendReq # NoSend /\ sendReq.decodes
           /\ sendReq.gasPrice < MINIMAL_GAS_PRICE)
          =>
          /\ sendRet.value = None
          /\ sendRet.raised # None
          /\ sendCalls = <<>>

\* a transaction of nonce 1 was sent for an account at nonce 0, the back
\* end ready to run it: it was refused with both nonces in the logs
C23_Witness ==
    /\ SendAdmitted
    /\ sendReq.account = Some(0)
    /\ sendReq.nonce = 1
    /\ sendReq.call_signed = "return"
    /\ sendRet.raised = Some(NonceError(0, 1))
    /\ sendCalls = <<>>

\* '0x' + '0' * 64
ZeroHash == HashPrefix \o Repeat("0", 64)

\* C24 (as stated): the synthetic hash of slot 0 is the all-zero hash, the
\* value every negative slot is clamped to.
C24_ZeroSlotAllZero ==
    hPc \in {"encoded", "decoded"} =>
        /\ hSlot = Wide(0) => hHash = ZeroHash
        /\ hSlot.neg => hHash = ZeroHash

\* C24 (amended): the synthetic hash of slot 0 is 0x, sixty f and 0000,
\* which decodes to slot 0; every negative slot is clamped to the all-zero
\* hash, which does not decode as a synthetic hash.
C24_ZeroSlot ==
    /\ hPc \in {"encoded", "decoded"} =>
        /\ hSlot = Wide(0) =>
              hHash = HashPrefix \o Repeat("f", 60) \o Repeat("0", 4)
        /\ hSlot.neg => hHash = ZeroHash
    /\ hPc = "decoded" =>
        /\ hSlot = Wide(0) => hDecoded = Some(Wide(0))
        /\ hSlot.neg => hDecoded = None

\* slot 0 went through the encoder and the decoder
C24_Witness ==
    /\ hPc = "decoded"
    /\ hSlot = Wide(0)
    /\ hHash # ZeroHash
    /\ hDecoded = Some(Wide(0))

\* 0x1234
Slot1234 == [neg |-> FALSE, hi |-> 0, lo |-> 4660]

\* C25 (as stated): the synthetic hash of 0x1234 is 0x, a run of f and the
\* ten digits 0000001234, sixty-four digits in all, and decoding that
\* value returns 0x1234.
C25_Encode1234Ten ==
    LET stated == HashPrefix \o Repeat("f", 54)
                    \o <<"0", "0", "0", "0", "0", "0", "1", "2", "3", "4">>
    IN  (hPc \in {"encoded", "decoded"} /\ hSlot = Slot1234) =>
            /\ hHash = stated
            /\ GetFakeBlockSlot(stated) = Some(Slot1234)

\* C25 (amended): the synthetic hash of 0x1234 is 0x, fifty-eight f and
\* the six digits 001234, and decoding it returns 0x1234.
C25_Encode1234 ==
    /\ (hPc \in {"encoded", "decoded"} /\ hSlot = Slot1234) =>
            hHash = HashPrefix \o Repeat("f", 58)
                        \o <<"0", "0", "1", "2", "3", "4">>
    /\ (hPc = "decoded" /\ hSlot = Slot1234) => hDecoded = Some(Slot1234)

\* 0x1234 went through the encoder and the decoder
C25_Witness ==
    /\ hPc = "decoded"
    /\ hSlot = Slot1234
    /\ Len(hHash) = 66
    /\ hDecoded = Some(Slot1234)

\* C26: a request naming a method that is no handler of the model is
\* answered with an error of code -32601.
C26_MethodNotFound ==
    (/\ rpcReq.parses
     /\ rpcReq.json.t = "dict"
     /\ rpcReq.json.method # None
     /\ rpcReq.json.method[1] \notin ModelMethods)
        =>
        /\ Len(rpcQueued) = 1
        /\ Len(rpcQueued[1].items) = 1
        /\ rpcQueued[1].items[1].error # None
        /\ rpcQueued[1].items[1].error[1].code = -32601

\* C27: every request of the maintenance socket, whatever its command, is
\* answered with a Result, never with no value.
C27_MaintenanceResult ==
    svcReq.class = "MaintenanceRequest" =>
        /\ svcRaised = None
        /\ svcRet # None
        /\ svcRet[1].kind = "Result"

\* C28: every response object the dispatcher builds, for a single request,
\* for each element of a batch and for a failure of the whole request,
\* carries jsonrpc = "2.0", an id, and either a result or an error, not
\* both.
C28_ResponseShape ==
    \A i \in 1..Len(rpcResponse.items) :
        LET r == rpcResponse.items[i]
        IN  /\ r.jsonrpc = "2.0"
            /\ r.has_id
            /\ (r.result # None) # (r.error # None)

\* C29: for every HTTP request that reaches it (OPTIONS, a JSON object, a
\* batch, an empty batch, a JSON scalar, a body that does not parse),
\* handle_request runs to its end and queues exactly one HTTP response;
\* no exception leaves it.
C29_OneResponse ==
    rpcReq # NoRequest =>
        /\ rpcRaised = None
        /\ Len(rpcQueued) = 1

\* C30: a finalized row is never deleted and never un-finalized: a row
\* with is_finalized = true is still stored, with is_finalized = true,
\* after every write.
C30_FinalizedStays ==
    [][\A s \in DOMAIN table :
            table[s].is_finalized =>
                (s \in DOMAIN table' /\ table'[s].is_finalized)]_vars

\* the threads whose plugin has its model
Built == {t \in Threads : gmPc[t] = "done"}

\* C31: under any interleaving of the threads that construct a plugin,
\* the EthereumModel constructor completes at most once, and every plugin
\* constructed holds that one instance, the module's modelInstance.
C31_Singleton ==
    /\ gmBuilt <= 1
    /\ \A t \in Built :
        /\ gmModel[t] # None
        /\ gmModel[t] = modelInstance
    /\ \A t, u \in Built : gmModel[t] = gmModel[u]

\* a first constructor call raised, a second built the model, and two
\* plugins hold it
C31_Witness ==
    /\ gmCalls = 2
    /\ gmBuilt = 1
    /\ Cardinality(Built) = 2
    /\ \A t \in Built : gmModel[t] = Some(2)

====
